---- MODULE Spec2Model ----
(***************************************************************************)
(* A model of etl.py: the ETL job that loads the song-data tree and the    *)
(* log-data tree into the songs, artists, time, users and songplays        *)
(* tables.  One run of main() is one behaviour.  The state is main's and   *)
(* process_data's control position, the locals of the extractor that is    *)
(* running, the statements issued on the cursor since the last commit,     *)
(* the rows the store has committed, and what was printed.                 *)
(*                                                                         *)
(* The file system is an input: whether each root exists is fixed at the   *)
(* start, the files under a root are chosen when os.walk lists them, and   *)
(* the content of a file is chosen when pd.read_json reads it.             *)
(***************************************************************************)
EXTENDS Integers, Sequences, FiniteSets, TLC

\* The most files under one data root.
MaxFiles == 2
\* The most lines (JSON records) in the files under one data root, together.
MaxLines == 3

\* Python's None; SQL NULL.  Floating-point fields are written as their
\* decimal text, so that a field holds either a number's text or Null.
Null == "None"

(***************************************************************************)
(* Input domains.                                                          *)
(***************************************************************************)

\* One line of a song file.  Against the NextSong event below: the first
\* matches on title, artist name and duration; each of the others differs
\* from it in exactly one of the three.
SongRecords ==
    { [song_id |-> "S1", title |-> "T", artist_id |-> "A1", year |-> 2000,
       duration |-> "200.5", artist_name |-> "Art", artist_location |-> "NY",
       artist_latitude |-> "40.7", artist_longitude |-> "-74.0"],
      [song_id |-> "S2", title |-> "U", artist_id |-> "A1", year |-> 0,
       duration |-> "200.5", artist_name |-> "Art", artist_location |-> "NY",
       artist_latitude |-> "40.7", artist_longitude |-> "-74.0"],
      [song_id |-> "S3", title |-> "T", artist_id |-> "A2", year |-> 1999,
       duration |-> "200.5", artist_name |-> "Bob", artist_location |-> Null,
       artist_latitude |-> Null, artist_longitude |-> Null],
      [song_id |-> "S4", title |-> "T", artist_id |-> "A1", year |-> 2000,
       duration |-> "201.5", artist_name |-> "Art", artist_location |-> "NY",
       artist_latitude |-> "40.7", artist_longitude |-> "-74.0"] }

\* One line of a log file: a song playback, and a page view by the same
\* user at the same millisecond.
Events ==
    { [page |-> "NextSong", ts |-> 90061001, userId |-> 8,
       firstName |-> "Kaylee", lastName |-> "Summers", gender |-> "F",
       level |-> "free", song |-> "T", artist |-> "Art", length |-> "200.5",
       sessionId |-> 139, location |-> "Phoenix", userAgent |-> "Mozilla"],
      [page |-> "Home", ts |-> 90061001, userId |-> 8,
       firstName |-> "Kaylee", lastName |-> "Summers", gender |-> "F",
       level |-> "free", song |-> Null, artist |-> Null, length |-> Null,
       sessionId |-> 139, location |-> "Phoenix", userAgent |-> "Mozilla"] }

RECURSIVE Sum(_)
Sum(s) == IF s = <<>> THEN 0 ELSE Head(s) + Sum(Tail(s))

\* The listings of a data root: each file by its number of lines.
FileLists ==
    { s \in UNION { [1..n -> 0..MaxLines] : n \in 0..MaxFiles } :
        Sum(s) <= MaxLines }

\* The contents a file of n lines can have, each line drawn from S.
FileContents(S, n) == [1..n -> S]

(***************************************************************************)
(* main and process_data.                                                  *)
(***************************************************************************)

\* main's two loads, in order, each with its extractor.  (LoadsSwapped: the
\* variant that loads the logs first.)
LoadsSwapped ==
    << [filepath |-> "data/log_data", func |-> "process_log_file"],
       [filepath |-> "data/song_data", func |-> "process_song_file"] >>
Loads == << [filepath |-> "data/song_data", func |-> "process_song_file"],
            [filepath |-> "data/log_data", func |-> "process_log_file"] >>

Roots == { "data/song_data", "data/log_data" }

\* Nothing in etl.py catches an exception: one raised by an extractor or by
\* commit leaves process_data and main, and the process ends.  (Variants: a
\* handler in the file loop that goes on with the next file, and a cleanup
\* handler in main that closes the connection.)
RaisePcContinue == "loop"
RaisePcCleanup == "close"
RaisePc == "aborted"

VARIABLES
    pc,          \* control position
    load,        \* which call of process_data main is in (index into Loads)
    rootExists,  \* file system: whether each data root exists
    all_files,   \* process_data: the files found
    num_files,   \* process_data: len(all_files)
    i,           \* process_data: the enumerate counter of the file loop
    filedata,    \* the lines of the file the extractor read
    df,          \* the extractor's dataframe: <<index label, row>> in order
    k,           \* iterrows position in the running loop of process_log_file
    songid,      \* process_log_file's locals
    artistid,
    txn,         \* statements issued on the cursor since the last commit
    committed,   \* rows the store has committed
    nCommits,    \* conn.commit() calls that returned
    output,      \* lines printed
    conn,        \* "none", "open", "closed"
    failure,     \* what raised, "none" if nothing did
    returned     \* history: per extractor call that returned, its inserts

vars == << pc, load, rootExists, all_files, num_files, i, filedata, df, k,
           songid, artistid, txn, committed, nCommits, output, conn, failure,
           returned >>

func == Loads[load].func
filepath == Loads[load].filepath

\* A statement issued on the cursor: its name in sql_queries and its
\* parameters.
Insert(stmt, data) == << stmt, data >>
IsInsert(s) == s[1] # "song_select"
Inserts(stmts) == SelectSeq(stmts, IsInsert)
Table(stmts, name) == SelectSeq(stmts, LAMBDA s : s[1] = name)

Init ==
    /\ pc = "start"
    /\ load = 1
    /\ rootExists \in [Roots -> BOOLEAN]
    /\ all_files = <<>>
    /\ num_files = 0
    /\ i = 0
    /\ filedata = <<>>
    /\ df = <<>>
    /\ k = 1
    /\ songid = Null
    /\ artistid = Null
    /\ txn = <<>>
    /\ committed = <<>>
    /\ nCommits = 0
    /\ output = <<>>
    /\ conn = "none"
    /\ failure = "none"
    /\ returned = <<>>

\* psycopg2.connect and conn.cursor()
Connect ==
    /\ pc = "start"
    /\ conn' = "open"
    /\ pc' = "discover"
    /\ UNCHANGED << load, rootExists, all_files, num_files, i, filedata, df, k,
                    songid, artistid, txn, committed, nCommits, output,
                    failure, returned >>

\* What os.walk yields in place of a listing when it reports that the root
\* cannot be listed.
NotFound == << -1 >>

\* os.walk over a root: a root that does not exist yields nothing (os.walk
\* ignores the listing error when no onerror is given).  (WalkRaises: the
\* variant in which the listing error is raised.)
WalkRaises(root) == IF rootExists[root] THEN FileLists ELSE { NotFound }
Walk(root) == IF rootExists[root] THEN FileLists ELSE { <<>> }

\* print('{} files found in {}'.format(num_files, filepath))
FoundLine(n, path) == [kind |-> "found", i |-> 0, n |-> n, path |-> path]

\* print('{}/{} files processed.'.format(i, num_files)), i counted from 1
\* by enumerate(all_files, 1).  (ProcessedLineFromZero: the variant that
\* counts from 0.)
ProcessedLineFromZero(j, n) ==
    [kind |-> "processed", i |-> j - 1, n |-> n, path |-> ""]
ProcessedLine(j, n) == [kind |-> "processed", i |-> j, n |-> n, path |-> ""]

\* process_data up to its file loop: list the files, count them, print.
Discover ==
    /\ pc = "discover"
    /\ \E fl \in Walk(filepath) :
         IF fl = NotFound
           THEN /\ pc' = "aborted"
                /\ failure' = "walk"
                /\ UNCHANGED << all_files, num_files, output, i >>
           ELSE /\ all_files' = fl
                /\ num_files' = Len(fl)
                /\ output' = Append(output, FoundLine(Len(fl), filepath))
                /\ i' = 0
                /\ pc' = "loop"
                /\ failure' = failure
    /\ UNCHANGED << load, rootExists, filedata, df, k, songid, artistid, txn,
                    committed, nCommits, conn, returned >>

\* The file loop takes the next file and calls the extractor on it.
NextFile ==
    /\ pc = "loop"
    /\ i < num_files
    /\ i' = i + 1
    /\ pc' = IF func = "process_song_file" THEN "song_read" ELSE "log_read"
    /\ UNCHANGED << load, rootExists, all_files, num_files, filedata, df, k,
                    songid, artistid, txn, committed, nCommits, output, conn,
                    failure, returned >>

\* The file loop is exhausted: process_data returns to main.
ReturnFromLoad ==
    /\ pc = "loop"
    /\ i >= num_files
    /\ IF load < Len(Loads)
         THEN /\ load' = load + 1
              /\ pc' = "discover"
         ELSE /\ load' = load
              /\ pc' = "close"
    /\ UNCHANGED << rootExists, all_files, num_files, i, filedata, df, k,
                    songid, artistid, txn, committed, nCommits, output, conn,
                    failure, returned >>

Raise(what) ==
    /\ pc' = RaisePc
    /\ failure' = what

(***************************************************************************)
(* process_song_file.                                                      *)
(***************************************************************************)

\* pd.read_json(lines=True): one row per line, labelled 0, 1, ... in order.
Frame(content) ==
    [ j \in 1..Len(content) |-> [index |-> j - 1, row |-> content[j]] ]

\* .values[0] of the projected frame: the first row.  (FirstRowLast: the
\* variant that takes the last row.)
FirstRowLast(frame) == frame[Len(frame)].row
FirstRow(frame) == frame[1].row

song_data(frame) ==
    LET r == FirstRow(frame)
    IN  << r.song_id, r.title, r.artist_id, r.year, r.duration >>

artist_data(frame) ==
    LET r == FirstRow(frame)
    IN  << r.artist_id, r.artist_name, r.artist_location, r.artist_latitude,
           r.artist_longitude >>

\* pd.read_json on a song file that parses.
ReadSongFile ==
    /\ pc = "song_read"
    /\ \E content \in FileContents(SongRecords, all_files[i]) :
         /\ filedata' = content
         /\ df' = Frame(content)
    /\ pc' = "song_insert"
    /\ UNCHANGED << load, rootExists, all_files, num_files, i, k, songid,
                    artistid, txn, committed, nCommits, output, conn, failure,
                    returned >>

\* pd.read_json raises on a file some line of which is not JSON.
ReadSongFileError ==
    /\ pc = "song_read"
    /\ all_files[i] > 0
    /\ Raise("parse")
    /\ UNCHANGED << load, rootExists, all_files, num_files, i, filedata, df, k,
                    songid, artistid, txn, committed, nCommits, output, conn,
                    returned >>

\* song_data = ...values[0].tolist() raises on a frame with no row.
SongDataError ==
    /\ pc = "song_insert"
    /\ Len(df) = 0
    /\ Raise("no_record")
    /\ UNCHANGED << load, rootExists, all_files, num_files, i, filedata, df, k,
                    songid, artistid, txn, committed, nCommits, output, conn,
                    returned >>

\* cur.execute(song_table_insert, song_data)
SongInsert ==
    /\ pc = "song_insert"
    /\ Len(df) > 0
    /\ txn' = Append(txn, Insert("song_table_insert", song_data(df)))
    /\ pc' = "artist_insert"
    /\ UNCHANGED << load, rootExists, all_files, num_files, i, filedata, df, k,
                    songid, artistid, committed, nCommits, output, conn,
                    failure, returned >>

\* cur.execute(artist_table_insert, artist_data); process_song_file returns.
ArtistInsert ==
    /\ pc = "artist_insert"
    /\ txn' = Append(txn, Insert("artist_table_insert", artist_data(df)))
    /\ returned' = Append(returned, Inserts(txn'))
    /\ pc' = "commit"
    /\ UNCHANGED << load, rootExists, all_files, num_files, i, filedata, df, k,
                    songid, artistid, committed, nCommits, output, conn,
                    failure >>

(***************************************************************************)
(* process_log_file.                                                       *)
(***************************************************************************)

\* df[df['page'] == 'NextSong']: the rows kept keep their index labels.
\* (KeepAll: the variant without the filter.)
KeepAll(frame) == frame
NextSongOnly(frame) == SelectSeq(frame, LAMBDA r : r.row.page = "NextSong")

\* pd.to_datetime(ts, unit='ms'), for the timestamps a 32-bit integer holds:
\* 0 <= ts < 2^31 ms, all of them in January 1970.
MsPerDay == 86400000
MsPerHour == 3600000
to_datetime(ts) ==
    [ year |-> 1970, month |-> 1, day |-> (ts \div MsPerDay) + 1,
      hour |-> (ts % MsPerDay) \div MsPerHour,
      minute |-> (ts % MsPerHour) \div 60000,
      second |-> (ts % 60000) \div 1000,
      millisecond |-> ts % 1000 ]

\* t.dt.week and t.dt.weekday in January 1970, whose 1st is a Thursday of
\* ISO week 1; Monday is weekday 0.
week(t) == ((t.day + 2) \div 7) + 1
weekday(t) == (t.day + 2) % 7

\* One row of time_df.
time_data(row) ==
    LET t == to_datetime(row.ts)
    IN  << t, t.hour, t.day, week(t), t.month, t.year, weekday(t) >>

\* One row of user_df.
user_data(row) ==
    << row.userId, row.firstName, row.lastName, row.gender, row.level >>

\* The parameters of the song_select query: title, artist name, duration.
\* (song_select_args_swapped: the variant with the first two exchanged.)
song_select_args_swapped(row) == << row.artist, row.song, row.length >>
song_select_args(row) == << row.song, row.artist, row.length >>

\* sql_queries.song_select: the (song_id, artist_id) of every song joined to
\* its artist whose title, artist name and duration equal the parameters.
song_select(rows, args) ==
    LET songs == Table(rows, "song_table_insert")
        artists == Table(rows, "artist_table_insert")
    IN  { << songs[a][2][1], artists[b][2][1] >> :
            << a, b >> \in
              { p \in (1..Len(songs)) \X (1..Len(artists)) :
                  /\ songs[p[1]][2][3] = artists[p[2]][2][1]
                  /\ songs[p[1]][2][2] = args[1]
                  /\ artists[p[2]][2][2] = args[2]
                  /\ songs[p[1]][2][5] = args[3] } }

\* The rows a statement on the cursor sees: the committed ones and those of
\* its own transaction.
Visible == committed \o Inserts(txn)

\* cur.fetchone() when the result has no row: None, written as the empty
\* tuple (both are false in "if results").
NoRow == <<>>

\* if results: songid, artistid = results / else: songid, artistid = None, None
Resolve(results) == IF results # NoRow THEN results ELSE << Null, Null >>

\* The songplay identifier of the row labelled index.
songplay_id(index) == index + 1

songplay_data(index, row) ==
    << songplay_id(index), to_datetime(row.ts), row.userId, row.level, songid,
       artistid, row.sessionId, row.location, row.userAgent >>

\* pd.read_json, the NextSong filter and the building of time_df.
ReadLogFile ==
    /\ pc = "log_read"
    /\ \E content \in FileContents(Events, all_files[i]) :
         /\ Len(content) > 0
         /\ filedata' = content
         /\ df' = NextSongOnly(Frame(content))
    /\ k' = 1
    /\ pc' = "time_loop"
    /\ UNCHANGED << load, rootExists, all_files, num_files, i, songid, artistid,
                    txn, committed, nCommits, output, conn, failure,
                    returned >>

\* pd.read_json raises on a file some line of which is not JSON.
ReadLogFileError ==
    /\ pc = "log_read"
    /\ all_files[i] > 0
    /\ Raise("parse")
    /\ UNCHANGED << load, rootExists, all_files, num_files, i, filedata, df, k,
                    songid, artistid, txn, committed, nCommits, output, conn,
                    returned >>

\* A file of no line reads as a frame of no row and no column: df['page']
\* raises.
ReadLogFileEmpty ==
    /\ pc = "log_read"
    /\ all_files[i] = 0
    /\ filedata' = <<>>
    /\ df' = <<>>
    /\ Raise("no_column")
    /\ UNCHANGED << load, rootExists, all_files, num_files, i, k, songid,
                    artistid, txn, committed, nCommits, output, conn,
                    returned >>

\* for i, row in time_df.iterrows(): cur.execute(time_table_insert, ...)
TimeInsert ==
    /\ pc = "time_loop"
    /\ k <= Len(df)
    /\ txn' = Append(txn, Insert("time_table_insert", time_data(df[k].row)))
    /\ k' = k + 1
    /\ UNCHANGED << pc, load, rootExists, all_files, num_files, i, filedata, df,
                    songid, artistid, committed, nCommits, output, conn,
                    failure, returned >>

TimeLoopEnd ==
    /\ pc = "time_loop"
    /\ k > Len(df)
    /\ k' = 1
    /\ pc' = "user_loop"
    /\ UNCHANGED << load, rootExists, all_files, num_files, i, filedata, df,
                    songid, artistid, txn, committed, nCommits, output, conn,
                    failure, returned >>

\* for i, row in user_df.iterrows(): cur.execute(user_table_insert, row)
UserInsert ==
    /\ pc = "user_loop"
    /\ k <= Len(df)
    /\ txn' = Append(txn, Insert("user_table_insert", user_data(df[k].row)))
    /\ k' = k + 1
    /\ UNCHANGED << pc, load, rootExists, all_files, num_files, i, filedata, df,
                    songid, artistid, committed, nCommits, output, conn,
                    failure, returned >>

UserLoopEnd ==
    /\ pc = "user_loop"
    /\ k > Len(df)
    /\ k' = 1
    /\ pc' = "songplay_select"
    /\ UNCHANGED << load, rootExists, all_files, num_files, i, filedata, df,
                    songid, artistid, txn, committed, nCommits, output, conn,
                    failure, returned >>

\* cur.execute(song_select, ...), cur.fetchone() and the branch on results.
\* fetchone gives one row of the result, None when there is none; the query
\* states no order, so any row may come first.
SongplaySelect ==
    /\ pc = "songplay_select"
    /\ k <= Len(df)
    /\ LET args == song_select_args(df[k].row)
           found == song_select(Visible, args)
       IN  /\ txn' = Append(txn, << "song_select", args >>)
           /\ \E results \in (IF found = {} THEN { NoRow } ELSE found) :
                /\ songid' = Resolve(results)[1]
                /\ artistid' = Resolve(results)[2]
    /\ pc' = "songplay_insert"
    /\ UNCHANGED << load, rootExists, all_files, num_files, i, filedata, df, k,
                    committed, nCommits, output, conn, failure, returned >>

\* cur.execute(songplay_table_insert, songplay_data)
SongplayInsert ==
    /\ pc = "songplay_insert"
    /\ txn' = Append(txn, Insert("songplay_table_insert",
                                 songplay_data(df[k].index, df[k].row)))
    /\ k' = k + 1
    /\ pc' = "songplay_select"
    /\ UNCHANGED << load, rootExists, all_files, num_files, i, filedata, df,
                    songid, artistid, committed, nCommits, output, conn,
                    failure, returned >>

\* The songplay loop is exhausted: process_log_file returns.
SongplayLoopEnd ==
    /\ pc = "songplay_select"
    /\ k > Len(df)
    /\ returned' = Append(returned, Inserts(txn))
    /\ pc' = "commit"
    /\ UNCHANGED << load, rootExists, all_files, num_files, i, filedata, df, k,
                    songid, artistid, txn, committed, nCommits, output, conn,
                    failure >>

(***************************************************************************)
(* The store, and the rest of process_data and main.                       *)
(***************************************************************************)

\* Whether the next step is a cur.execute.
AtExecute ==
    \/ pc = "song_insert" /\ Len(df) > 0
    \/ pc \in { "artist_insert", "songplay_insert" }
    \/ pc \in { "time_loop", "user_loop", "songplay_select" } /\ k <= Len(df)

\* The store refuses a statement (a constraint violation, a lost
\* connection): cur.execute raises and the statement adds nothing.
ExecuteError ==
    /\ AtExecute
    /\ Raise("execute")
    /\ UNCHANGED << load, rootExists, all_files, num_files, i, filedata, df, k,
                    songid, artistid, txn, committed, nCommits, output, conn,
                    returned >>

\* The rows committed once conn.commit() returned.  (CommittedDropsTxn: the
\* variant in which the transaction's rows are lost.)
CommittedDropsTxn(rows, stmts) == rows
Committed(rows, stmts) == rows \o Inserts(stmts)

\* conn.commit() after the extractor returned.
Commit ==
    /\ pc = "commit"
    /\ committed' = Committed(committed, txn)
    /\ txn' = <<>>
    /\ nCommits' = nCommits + 1
    /\ pc' = "report"
    /\ UNCHANGED << load, rootExists, all_files, num_files, i, filedata, df, k,
                    songid, artistid, output, conn, failure, returned >>

\* conn.commit() raises: nothing of the transaction is committed.
CommitError ==
    /\ pc = "commit"
    /\ Raise("commit")
    /\ UNCHANGED << load, rootExists, all_files, num_files, i, filedata, df, k,
                    songid, artistid, txn, committed, nCommits, output, conn,
                    returned >>

\* print('{}/{} files processed.'.format(i, num_files))
Report ==
    /\ pc = "report"
    /\ output' = Append(output, ProcessedLine(i, num_files))
    /\ pc' = "loop"
    /\ UNCHANGED << load, rootExists, all_files, num_files, i, filedata, df, k,
                    songid, artistid, txn, committed, nCommits, conn, failure,
                    returned >>

\* cur.close() and conn.close()
Close ==
    /\ pc = "close"
    /\ conn' = "closed"
    /\ pc' = "done"
    /\ UNCHANGED << load, rootExists, all_files, num_files, i, filedata, df, k,
                    songid, artistid, txn, committed, nCommits, output,
                    failure, returned >>

Next ==
    \/ Connect
    \/ Discover
    \/ NextFile
    \/ ReturnFromLoad
    \/ ReadSongFile
    \/ ReadSongFileError
    \/ SongDataError
    \/ SongInsert
    \/ ArtistInsert
    \/ ReadLogFile
    \/ ReadLogFileError
    \/ ReadLogFileEmpty
    \/ TimeInsert
    \/ TimeLoopEnd
    \/ UserInsert
    \/ UserLoopEnd
    \/ SongplaySelect
    \/ SongplayInsert
    \/ SongplayLoopEnd
    \/ ExecuteError
    \/ Commit
    \/ CommitError
    \/ Report
    \/ Close

Spec == Init /\ [][Next]_vars

\* The program is one sequential thread: while it can take a step, it does.
FairSpec == Spec /\ WF_vars(Next)

(***************************************************************************)
(* Helpers of the properties.                                              *)
(***************************************************************************)

RECURSIVE Flatten(_)
Flatten(ss) == IF ss = <<>> THEN <<>> ELSE Head(ss) \o Flatten(Tail(ss))

SongPath == "data/song_data"
LogPath == "data/log_data"

\* The positions of the "files found" lines in the output.
FoundAt == { j \in 1..Len(output) : output[j].kind = "found" }
Started(path) == \E j \in FoundAt : output[j].path = path

\* The progress lines of the load that is running: those printed since its
\* "files found" line.
Progress ==
    IF FoundAt = {} THEN <<>>
    ELSE LET last == CHOOSE j \in FoundAt : \A m \in FoundAt : m <= j
         IN  SubSeq(output, last + 1, Len(output))

\* All progress lines printed, of both loads.
AllProgress == SelectSeq(output, LAMBDA l : l.kind = "processed")

InSongExtractor == pc \in { "song_read", "song_insert", "artist_insert" }
InLogExtractor ==
    pc \in { "log_read", "time_loop", "user_loop", "songplay_select",
             "songplay_insert" }
InExtractor == InSongExtractor \/ InLogExtractor
ExtractorFailed == failure \in { "parse", "no_record", "no_column", "execute" }

NextSongCount(lines) ==
    Cardinality({ j \in 1..Len(lines) : lines[j].page = "NextSong" })

(***************************************************************************)
(* Properties.                                                             *)
(***************************************************************************)

\* The songplay inserts of the log file being processed (a commit empties
\* the transaction before the next file is read).
SongplaysOfFile == Table(txn, "songplay_table_insert")

\* C1: the k-th retained (NextSong) event of a log file gets the songplay
\* identifier k, its position after filtering, whatever lines precede it in
\* the unfiltered file.
C1_IdIsPositionAfterFilter ==
    func = "process_log_file" =>
      \A j \in 1..Len(SongplaysOfFile) : SongplaysOfFile[j][2][1] = j

\* C2: when process_log_file has processed a log file to completion, it has
\* issued as many songplay inserts, as many time inserts and as many user
\* inserts as the file has events whose page is "NextSong", one lookup for
\* each of them and nothing else, with no deduplication of events that share
\* a timestamp or a user id.
C2_OneInsertOfEachPerNextSong ==
    (func = "process_log_file" /\ pc = "commit") =>
      LET n == NextSongCount(filedata)
      IN  /\ Len(Table(txn, "songplay_table_insert")) = n
          /\ Len(Table(txn, "time_table_insert")) = n
          /\ Len(Table(txn, "user_table_insert")) = n
          /\ Len(Table(txn, "song_select")) = n
          /\ Len(txn) = 4 * n

\* A log file with two NextSong events of the same timestamp and user, and
\* an event of another page, has been processed to completion.
C2_Witness ==
    /\ func = "process_log_file"
    /\ pc = "commit"
    /\ NextSongCount(filedata) = 2
    /\ Len(filedata) = 3
    /\ \A a, b \in 1..3 : /\ filedata[a].ts = filedata[b].ts
                          /\ filedata[a].userId = filedata[b].userId

\* Whether the rows hold a song and its artist with this title, artist name
\* and duration, and with these identifiers.
Holds(rows, title, name, duration, sid, aid) ==
    \E s, a \in 1..Len(rows) :
      /\ rows[s][1] = "song_table_insert"
      /\ rows[a][1] = "artist_table_insert"
      /\ rows[s][2][3] = rows[a][2][1]
      /\ rows[s][2][2] = title
      /\ rows[a][2][2] = name
      /\ rows[s][2][5] = duration
      /\ rows[s][2][1] = sid
      /\ rows[a][2][1] = aid

SongIds == { r.song_id : r \in SongRecords }
ArtistIds == { r.artist_id : r \in SongRecords }

\* C3: the songplay insert of a retained event carries a non-null
\* (song_id, artist_id) exactly if the store holds a song and its artist
\* whose title, artist name and duration equal the event's song, artist and
\* length; then the identifiers are those of such a pair; otherwise both are
\* null; never is one null and the other not.
C3_ResolvedIffExactMatch ==
    (func = "process_log_file" /\ pc = "songplay_select" /\ k > 1) =>
      LET sp == txn[Len(txn)]
          e == df[k - 1].row
          match == \E sid \in SongIds, aid \in ArtistIds :
                     Holds(Visible, e.song, e.artist, e.length, sid, aid)
      IN  /\ sp[1] = "songplay_table_insert"
          /\ (sp[2][5] # Null) <=> match
          /\ (sp[2][5] = Null) <=> (sp[2][6] = Null)
          /\ match => Holds(Visible, e.song, e.artist, e.length,
                            sp[2][5], sp[2][6])

\* A songplay was inserted with both identifiers resolved, while the store
\* also holds a song that differs from the event in one field only.
C3_Witness ==
    /\ func = "process_log_file"
    /\ pc = "songplay_select"
    /\ k > 1
    /\ txn[Len(txn)][2][5] = "S1"
    /\ txn[Len(txn)][2][6] = "A1"
    /\ Len(Table(committed, "song_table_insert")) = 2

\* C4: in process_data over M files the progress lines are "1/M", "2/M", ...
\* in order; the line "N/M" is printed right after file N, and so each file
\* before it, was extracted and committed; and once anything raises the run
\* is over: if the extractor raises on file K, files 1..K-1 have their
\* lines and commits, K has no line and no commit, and no extractor runs on
\* K+1..M.
C4_ProgressAndAbort ==
    LET printed == Len(Progress)
    IN  /\ \A j \in 1..printed :
               Progress[j] = [kind |-> "processed", i |-> j, n |-> num_files,
                              path |-> ""]
        /\ printed = IF pc \in { "start", "discover", "loop", "close", "done" }
                       THEN i ELSE i - 1
        /\ nCommits = Len(AllProgress) + (IF pc = "report" THEN 1 ELSE 0)
        /\ Len(returned) >= nCommits
        /\ failure # "none" => (pc = "aborted" /\ ~ENABLED Next)
        /\ ExtractorFailed =>
             /\ i <= num_files
             /\ printed = i - 1
             /\ nCommits = Len(AllProgress)
             /\ Len(returned) = nCommits

\* The extractor raised on the first of two log files, after the song load
\* printed its lines.
C4_Witness ==
    /\ pc = "aborted"
    /\ ExtractorFailed
    /\ load = 2
    /\ i = 1
    /\ num_files = 2
    /\ Len(AllProgress) >= 1

\* Whether the discovery step of main's l-th load has run.
Discovered(l) ==
    load > l \/ (load = l /\ pc \notin { "start", "discover" })

\* C5 as stated: at any point of any run, the committed rows are precisely
\* the rows of the files whose extractor completed.
C5_CommittedAreCompletedFiles == committed = Flatten(returned)

\* C5 as amended: at any point of any run, the committed rows are precisely
\* the rows of the files whose extractor completed and whose commit, the one
\* that follows it, has returned; at most one completed file awaits its
\* commit, and then the transaction holds exactly that file's rows; no
\* commit happens while an extractor runs, and the rows of an extractor that
\* raised stay in the open transaction.
C5_CommittedAreCommittedFiles ==
    /\ nCommits <= Len(returned)
    /\ Len(returned) <= nCommits + 1
    /\ committed = Flatten(SubSeq(returned, 1, nCommits))
    /\ Len(returned) > nCommits =>
         /\ pc = "commit" \/ failure = "commit"
         /\ Inserts(txn) = returned[Len(returned)]
    /\ pc \in { "start", "discover", "loop", "song_read", "log_read", "report",
                "close", "done" } => txn = <<>>
    /\ (InExtractor \/ ExtractorFailed) => Len(returned) = nCommits
    /\ (func = "process_song_file" /\ nCommits = Len(returned)) =>
         nCommits = Len(AllProgress) + (IF pc = "report" THEN 1 ELSE 0)

\* The second song file's extractor raised after its song insert: the first
\* file's rows are committed, the second's insert is not.
C5_Witness ==
    /\ pc = "aborted"
    /\ failure = "execute"
    /\ func = "process_song_file"
    /\ nCommits = 1
    /\ Len(committed) = 2
    /\ Len(txn) = 1

C7_SongFileInserts ==
    func = "process_song_file" =>
      /\ pc = "commit" =>
           /\ Len(filedata) >= 1
           /\ txn = << << "song_table_insert",
                          << filedata[1].song_id, filedata[1].title,
                             filedata[1].artist_id, filedata[1].year,
                             filedata[1].duration >> >>,
                       << "artist_table_insert",
                          << filedata[1].artist_id, filedata[1].artist_name,
                             filedata[1].artist_location,
                             filedata[1].artist_latitude,
                             filedata[1].artist_longitude >> >> >>
      /\ (pc = "song_insert" /\ Len(filedata) = 0) =>
           (txn = <<>> /\ ~ENABLED SongInsert /\ ENABLED SongDataError)
      /\ failure = "no_record" => (filedata = <<>> /\ txn = <<>>)
      /\ pc = "artist_insert" =>
           (Len(txn) = 1 /\ txn[1][1] = "song_table_insert")
      /\ (InSongExtractor \/ pc = "commit" \/ ExtractorFailed) =>
           nCommits = i - 1

\* process_song_file returned from a file of two different records.
C7_Witness ==
    /\ func = "process_song_file"
    /\ pc = "commit"
    /\ Len(filedata) = 2
    /\ filedata[1] # filedata[2]

\* C8: the log-data load starts only after the song-data load completed
\* without failure; if anything raises during the song load, no log file
\* is discovered or processed and no time, user or songplay insert is issued.
C8_LogLoadAfterSongLoad ==
    LET logStmts == { "time_table_insert", "user_table_insert",
                      "songplay_table_insert", "song_select" }
        noLogStmt(stmts) == \A j \in 1..Len(stmts) : stmts[j][1] \notin logStmts
    IN  /\ (Started(LogPath) \/ func = "process_log_file") =>
             /\ Len(output) >= 1
             /\ output[1].kind = "found"
             /\ output[1].path = SongPath
             /\ \A j \in 1..output[1].n :
                  /\ output[j + 1].kind = "processed"
                  /\ output[j + 1].i = j
             /\ Len(Table(committed, "song_table_insert")) = output[1].n
             /\ Len(Table(committed, "artist_table_insert")) = output[1].n
        /\ ~Started(LogPath) =>
             /\ noLogStmt(txn)
             /\ noLogStmt(committed)
             /\ ~InLogExtractor
        /\ (failure # "none" /\ ~Started(LogPath)) =>
             (pc = "aborted" /\ ~ENABLED Next)

\* The extractor raised on the second song file, after the first was
\* committed.
C8_Witness ==
    /\ pc = "aborted"
    /\ func = "process_song_file"
    /\ ExtractorFailed
    /\ i = 2
    /\ nCommits = 1

\* What holds of the connection in every state.
C9_Connection ==
    /\ conn = "none" <=> pc = "start"
    /\ conn = "closed" <=> pc = "done"
    /\ conn = "closed" =>
         /\ failure = "none"
         /\ load = Len(Loads)
         /\ i = num_files
         /\ txn = <<>>
         /\ nCommits = Len(AllProgress)
    /\ failure # "none" => conn = "open"

\* C9: the connection is opened once, at the start, and closed once, after
\* the last commit of the log-data load and only if nothing raised: a run
\* in which nothing raises ends with the connection closed, nothing is
\* executed or committed after the close, and in a run in which something
\* raises the connection is never closed.
C9_ClosedOnNormalExitOnly ==
    /\ []C9_Connection
    /\ [][/\ conn = "open" => conn' \in { "open", "closed" }
          /\ conn = "closed" => UNCHANGED << conn, txn, committed, nCommits >>
          /\ failure # "none" => (failure' = failure /\ conn' = "open")]_vars
    /\ <>(conn = "closed" \/ failure # "none")

\* The connection is closed after both loads committed files.
C9_Witness ==
    /\ conn = "closed"
    /\ Len(Table(committed, "song_table_insert")) >= 1
    /\ Len(Table(committed, "songplay_table_insert")) >= 1

====
